---- MODULE Spec2Model ----
(***************************************************************************)
(* NPZFile (pynapple/io/interface_npz.py): classification of a container   *)
(* of named arrays at construction, and reconstruction of the pynapple     *)
(* object by load().                                                       *)
(*                                                                         *)
(* A container is a function from the keys it holds to arrays.  An array   *)
(* is a record [str, ndim, v]: whether its elements are numpy strings, its *)
(* number of dimensions, and its entries along the first axis.  The        *)
(* parallel arrays t, index and data of one container have one length,    *)
(* timestamps are increasing, and every array but d is one-dimensional    *)
(* (the `type` entry included).  np.load is taken to succeed.  The         *)
(* constructors of pynapple.core bind the arrays they are given.           *)
(***************************************************************************)
EXTENDS Integers, Sequences, FiniteSets

\* ---------------------------------------------------------------- bounds
MaxT     == 2   \* timestamps in a container: 0..MaxT
NumIds   == 2   \* group identifiers are 1..NumIds
MaxKeys  == 2   \* entries of the `keys` array: 0..MaxKeys
MaxMeta  == 2   \* length of the extra (metadata candidate) array: 0..MaxMeta
MaxNdim  == 2   \* dimensions of the `d` array: 0..MaxNdim
MaxLoads == 2   \* load() calls on one handle

VARIABLES file, pc, type, reads, returned

vars == <<file, pc, type, reads, returned>>

\* ------------------------------------------------------------ containers
Ids == 1..NumIds

AllKeys == {"type", "t", "d", "data", "start", "end", "index", "columns",
            "keys", "rate", "location"}

Possible == {"Ts", "Tsd", "TsdFrame", "TsdTensor", "TsGroup", "IntervalSet"}

Kinds == Possible \cup {"npz"}

Range(s) == {s[i] : i \in DOMAIN s}

SeqsUpTo(S, n) == UNION {[1..m -> S] : m \in 0..n}

Arr(isStr, nd, vals) == [str |-> isStr, ndim |-> nd, v |-> vals]

\* values the `type` entry takes: one string (a kind or not), one number,
\* two strings, no entry at all
TypeArrays ==
    {Arr(TRUE, 1, <<s>>) : s \in Kinds \cup {"Folder"}}
      \cup {Arr(FALSE, 1, <<1>>), Arr(TRUE, 1, <<"Ts", "Tsd">>), Arr(TRUE, 1, <<>>)}

Container(ks, ty, nd, idx, kys, ml) ==
    LET n == Len(idx) IN
    [k \in ks |->
        CASE k = "type"     -> ty
          [] k = "t"        -> Arr(FALSE, 1, [i \in 1..n |-> i])
          [] k = "index"    -> Arr(FALSE, 1, idx)
          [] k = "data"     -> Arr(FALSE, 1, [i \in 1..n |-> 10 * i])
          [] k = "d"        -> Arr(FALSE, nd, [i \in 1..n |-> 100 + i])
          [] k = "start"    -> Arr(FALSE, 1, <<0>>)
          [] k = "end"      -> Arr(FALSE, 1, <<10>>)
          [] k = "columns"  -> Arr(TRUE, 1, <<"a", "b">>)
          [] k = "keys"     -> Arr(FALSE, 1, kys)
          [] k = "rate"     -> Arr(FALSE, 1, [i \in 1..Len(kys) |-> 1])
          [] k = "location" -> Arr(TRUE, 1, [i \in 1..ml |-> "pfc"])]

\* every key set and every `type` entry, with fixed array contents
KeySetContainers ==
    {Container(ks, ty, nd, <<1, 2>>, <<1, 2>>, 2) :
        ks \in SUBSET AllKeys, ty \in TypeArrays, nd \in 0..MaxNdim}

\* containers holding a group, with the optional keys opt: every content of
\* index, of keys (drawn from kys) and every length of the extra array
\* (drawn from mls)
GroupContainersWith(opt, kys, mls) ==
    {Container({"t", "index", "start", "end"} \cup opt \cup more,
               Arr(TRUE, 1, <<"TsGroup">>), 1, idx, ky, ml) :
        more \in SUBSET {"d", "data"},
        idx \in SeqsUpTo(Ids, MaxT), ky \in kys, ml \in mls}

GroupContainers ==
    GroupContainersWith({}, {<<>>}, {0})
      \cup GroupContainersWith({"keys"}, SeqsUpTo(Ids, MaxKeys), {0})
      \cup GroupContainersWith({"location"}, {<<>>}, 0..MaxMeta)
      \cup GroupContainersWith({"keys", "location"},
                               SeqsUpTo(Ids, MaxKeys), 0..MaxMeta)

\* ------------------------------------------------------------- __init__
\* the length test of the `type` entry inverted
TypeOverrideLengthInverted(f) ==
    IF "type" \in DOMAIN f
    THEN IF Len(f["type"].v) > 1
         THEN IF f["type"].str
              THEN IF f["type"].v[1] \in Possible
                   THEN f["type"].v[1]
                   ELSE ""
              ELSE ""
         ELSE ""
    ELSE ""

\* "First check if type is explicitely defined"
TypeOverride(f) ==
    IF "type" \in DOMAIN f
    THEN IF Len(f["type"].v) = 1
         THEN IF f["type"].str
              THEN IF f["type"].v[1] \in Possible
                   THEN f["type"].v[1]
                   ELSE ""
              ELSE ""
         ELSE ""
    ELSE ""

\* the timestamps-only pattern tried before the patterns that need d
StructuralTsFirst(f) ==
    LET k == DOMAIN f IN
    IF {"t", "start", "end", "index"} \subseteq k THEN "TsGroup"
    ELSE IF {"t", "start", "end"} \subseteq k THEN "Ts"
    ELSE IF {"t", "d", "start", "end", "columns"} \subseteq k THEN "TsdFrame"
    ELSE IF {"t", "d", "start", "end"} \subseteq k
         THEN IF f["d"].ndim = 1 THEN "Tsd" ELSE "TsdTensor"
    ELSE IF {"start", "end"} \subseteq k THEN "IntervalSet"
    ELSE "npz"

\* the pattern of Tsd tried before the pattern of TsdFrame
StructuralTsdBeforeFrame(f) ==
    LET k == DOMAIN f IN
    IF {"t", "start", "end", "index"} \subseteq k THEN "TsGroup"
    ELSE IF {"t", "d", "start", "end"} \subseteq k
         THEN IF f["d"].ndim = 1 THEN "Tsd" ELSE "TsdTensor"
    ELSE IF {"t", "d", "start", "end", "columns"} \subseteq k THEN "TsdFrame"
    ELSE IF {"t", "start", "end"} \subseteq k THEN "Ts"
    ELSE IF {"start", "end"} \subseteq k THEN "IntervalSet"
    ELSE "npz"

\* "Second check manually"
Structural(f) ==
    LET k == DOMAIN f IN
    IF {"t", "start", "end", "index"} \subseteq k THEN "TsGroup"
    ELSE IF {"t", "d", "start", "end", "columns"} \subseteq k THEN "TsdFrame"
    ELSE IF {"t", "d", "start", "end"} \subseteq k
         THEN IF f["d"].ndim = 1 THEN "Tsd" ELSE "TsdTensor"
    ELSE IF {"t", "start", "end"} \subseteq k THEN "Ts"
    ELSE IF {"start", "end"} \subseteq k THEN "IntervalSet"
    ELSE "npz"

Classify(f) ==
    LET declared == TypeOverride(f) IN
    IF declared = "" THEN Structural(f) ELSE declared

\* ----------------------------------------------------------------- load
\* a[mask]: the entries of a at the positions where mask is true, in order
RECURSIVE BoolIndex(_, _)
BoolIndex(a, mask) ==
    IF a = <<>> THEN <<>>
    ELSE (IF Head(mask) THEN <<Head(a)>> ELSE <<>>)
            \o BoolIndex(Tail(a), Tail(mask))

\* index == k
EqMask(index, k) == [i \in DOMAIN index |-> index[i] = k]

RECURSIVE SortSet(_)
SortSet(S) ==
    IF S = {} THEN <<>>
    ELSE LET m == CHOOSE x \in S : \A y \in S : x <= y
         IN  <<m>> \o SortSet(S \ {m})

\* np.unique(index): the distinct values, sorted
Unique(index) == SortSet(Range(index))

\* the keys of a dict filled by iterating over `keys`: first occurrences,
\* in insertion order
DictKeys(keys) ==
    BoolIndex(keys, [i \in DOMAIN keys |->
                        \A j \in 1..(i - 1) : keys[j] # keys[i]])

\* constructors of pynapple.core
IntervalSet(start, end) == [kind |-> "IntervalSet", start |-> start.v, end |-> end.v]

Ts(t, time_support) == [kind |-> "Ts", t |-> t, time_support |-> time_support]

Tsd(t, d, time_support) ==
    [kind |-> "Tsd", t |-> t, d |-> d, time_support |-> time_support]

TsdTensor(t, d, time_support) ==
    [kind |-> "TsdTensor", t |-> t, d |-> d, time_support |-> time_support]

TsdFrame(t, d, time_support, columns) ==
    [kind |-> "TsdFrame", t |-> t, d |-> d, time_support |-> time_support,
     columns |-> columns]

TsGroup(ids, group, time_support, metainfo) ==
    [kind |-> "TsGroup", ids |-> ids, group |-> group,
     time_support |-> time_support, metainfo |-> metainfo]

\* "d" decides whether the members carry data
HasData(f) == "d" \in DOMAIN f

\* the `keys` array ignored
GroupKeysFromIndexOnly(f) == Unique(f["index"].v)

\* the identifiers iterated over
GroupKeys(f) ==
    IF "keys" \in DOMAIN f THEN f["keys"].v ELSE Unique(f["index"].v)

\* the TimeSupport built before the test for "npz"
PlanTimeSupportFirst(f, ty) ==
    <<"start", "end">> \o
         (CASE ty = "TsGroup" ->
                  <<"t", "index">>
                     \o (IF HasData(f) THEN <<"data">> ELSE <<>>)
                     \o (IF "keys" \in DOMAIN f THEN <<"keys">> ELSE <<>>)
            [] ty = "TsdFrame"    -> <<"t", "d", "columns">>
            [] ty = "TsdTensor"   -> <<"t", "d">>
            [] ty = "Tsd"         -> <<"t", "d">>
            [] ty = "Ts"          -> <<"t">>
            [] OTHER              -> <<>>)

\* the self.file[...] subscripts of load(), in evaluation order
Plan(f, ty) ==
    IF ty = "npz" THEN <<>>
    ELSE <<"start", "end">> \o
         (CASE ty = "TsGroup" ->
                  <<"t", "index">>
                     \o (IF HasData(f) THEN <<"data">> ELSE <<>>)
                     \o (IF "keys" \in DOMAIN f THEN <<"keys">> ELSE <<>>)
            [] ty = "TsdFrame"    -> <<"t", "d", "columns">>
            [] ty = "TsdTensor"   -> <<"t", "d">>
            [] ty = "Tsd"         -> <<"t", "d">>
            [] ty = "Ts"          -> <<"t">>
            [] OTHER              -> <<>>)

\* the failure reported at the first subscript whatever key is missing
FirstMissingAtFirstSubscript(f, plan) ==
    LET miss == {i \in DOMAIN plan : plan[i] \notin DOMAIN f} IN
    IF miss = {} THEN 0 ELSE 1

\* position in the plan of the first subscript whose key is not in the
\* archive (0: none); that subscript raises KeyError
FirstMissing(f, plan) ==
    LET miss == {i \in DOMAIN plan : plan[i] \notin DOMAIN f} IN
    IF miss = {} THEN 0 ELSE CHOOSE i \in miss : \A j \in miss : i <= j

KeyError(key) == [kind |-> "KeyError", key |-> key]

Reserved == {"start", "end", "t", "index", "d", "rate", "keys"}

\* the length compared with the number of timestamps
MetaInfoPerTimestamp(f, ngroups) ==
    LET accepted == {k \in DOMAIN f \ Reserved : Len(f[k].v) = Len(f["t"].v)}
    IN  [k \in accepted |-> f[k]]

\* the arrays handed to set_info: len(tmp) == len(tsgroup)
MetaInfo(f, ngroups) ==
    LET accepted == {k \in DOMAIN f \ Reserved : Len(f[k].v) = ngroups}
    IN  [k \in accepted |-> f[k]]

LoadTsGroup(f, time_support) ==
    LET times == f["t"].v
        index == f["index"].v
        keys  == GroupKeys(f)
        group == [k \in Range(keys) |->
                    IF HasData(f)
                    THEN Tsd(BoolIndex(times, EqMask(index, k)),
                             BoolIndex(f["data"].v, EqMask(index, k)),
                             time_support)
                    ELSE Ts(BoolIndex(times, EqMask(index, k)), time_support)]
        ids   == DictKeys(keys)
    IN  TsGroup(ids, group, time_support, MetaInfo(f, Len(ids)))

\* the object load() returns when every subscript succeeds
Build(f, ty) ==
    IF ty = "npz" THEN [kind |-> "npz", file |-> f]
    ELSE LET time_support == IntervalSet(f["start"], f["end"]) IN
         CASE ty = "TsGroup"   -> LoadTsGroup(f, time_support)
           [] ty = "TsdFrame"  ->
                  TsdFrame(f["t"].v, f["d"].v, time_support, f["columns"].v)
           [] ty = "TsdTensor" -> TsdTensor(f["t"].v, f["d"].v, time_support)
           [] ty = "Tsd"       -> Tsd(f["t"].v, f["d"].v, time_support)
           [] ty = "Ts"        -> Ts(f["t"].v, time_support)
           [] ty = "IntervalSet" -> time_support
           [] OTHER            -> [kind |-> "npz", file |-> f]

LoadResult(f, ty) ==
    LET plan == Plan(f, ty)
        m    == FirstMissing(f, plan)
    IN  IF m = 0
        THEN [reads |-> plan, result |-> Build(f, ty)]
        ELSE [reads |-> SubSeq(plan, 1, m), result |-> KeyError(plan[m])]

Init ==
    /\ file \in KeySetContainers \cup GroupContainers
    /\ pc = "closed"
    /\ type = ""
    /\ reads = <<>>
    /\ returned = <<>>

Open ==
    /\ pc = "closed"
    /\ type' = Classify(file)
    /\ pc' = "open"
    /\ UNCHANGED <<file, reads, returned>>

\* a load that drops the cached classification
LoadForgetsType ==
    /\ pc = "open"
    /\ Len(returned) < MaxLoads
    /\ reads' = LoadResult(file, type).reads
    /\ returned' = Append(returned, LoadResult(file, type).result)
    /\ type' = "npz"
    /\ UNCHANGED <<file, pc>>

Load ==
    /\ pc = "open"
    /\ Len(returned) < MaxLoads
    /\ reads' = LoadResult(file, type).reads
    /\ returned' = Append(returned, LoadResult(file, type).result)
    /\ UNCHANGED <<file, pc, type>>

Next == Open \/ Load

Spec == Init /\ [][Next]_vars

\* ---------------------------------------------------------------- claims
Opened == pc = "open"

Loaded == returned # <<>>

Result == returned[Len(returned)]

Failed(r) == r.kind = "KeyError"

\* the `type` entry is one string naming a kind
DeclaresKind(f) ==
    /\ "type" \in DOMAIN f
    /\ Len(f["type"].v) = 1
    /\ f["type"].str
    /\ f["type"].v[1] \in Possible

Has(f, ks) == \A k \in ks : k \in DOMAIN f

\* C1: a container whose `type` entry is one string naming a known kind is
\* classified at open as exactly that kind, whatever other keys it holds.
C1_OverridePrecedence ==
    (Opened /\ DeclaresKind(file)) => type = file["type"].v[1]

\* an override that contradicts the key pattern has been stored
C1_Witness ==
    /\ Opened
    /\ DeclaresKind(file)
    /\ type = "Ts"
    /\ Has(file, {"t", "d", "start", "end", "index", "columns"})

\* C2: without a valid override the kind is the first match of the ordered
\* key patterns, Tsd or TsdTensor by the dimensions of d, and exactly one
\* kind results.
C2_FirstMatch ==
    (Opened /\ ~DeclaresKind(file)) =>
        LET grp == Has(file, {"t", "start", "end", "index"})
            frm == Has(file, {"t", "d", "start", "end", "columns"})
            dat == Has(file, {"t", "d", "start", "end"})
            tst == Has(file, {"t", "start", "end"})
            itv == Has(file, {"start", "end"})
        IN  /\ type \in Kinds
            /\ grp => type = "TsGroup"
            /\ (~grp /\ frm) => type = "TsdFrame"
            /\ (~grp /\ ~frm /\ dat /\ file["d"].ndim = 1) => type = "Tsd"
            /\ (~grp /\ ~frm /\ dat /\ file["d"].ndim >= 2) => type = "TsdTensor"
            /\ (~grp /\ ~frm /\ ~dat /\ tst) => type = "Ts"
            /\ (~grp /\ ~frm /\ ~dat /\ ~tst /\ itv) => type = "IntervalSet"
            /\ (~grp /\ ~frm /\ ~dat /\ ~tst /\ ~itv) => type = "npz"

\* a two-dimensional d without columns, and an unusable `type` entry
C2_Witness ==
    /\ Opened
    /\ "type" \in DOMAIN file
    /\ ~DeclaresKind(file)
    /\ Has(file, {"t", "d", "start", "end"})
    /\ file["d"].ndim = 2
    /\ type = "TsdTensor"

\* C3 as stated: with no `type` key, a key set containing t, d, start, end
\* and columns is classified TsdFrame, whatever further keys it holds.
C3_Original ==
    (Opened /\ "type" \notin DOMAIN file
            /\ Has(file, {"t", "d", "start", "end", "columns"}))
        => type = "TsdFrame"

\* C3 amended: such a key set is classified TsdFrame when it does not hold
\* index and TsGroup when it does; it is never classified Tsd or Ts.
C3_FrameUnlessIndex ==
    (Opened /\ "type" \notin DOMAIN file
            /\ Has(file, {"t", "d", "start", "end", "columns"}))
        => /\ type \notin {"Tsd", "Ts"}
           /\ "index" \notin DOMAIN file => type = "TsdFrame"
           /\ "index" \in DOMAIN file => type = "TsGroup"

C3_Witness ==
    /\ Opened
    /\ "type" \notin DOMAIN file
    /\ Has(file, {"t", "d", "start", "end", "columns", "keys"})
    /\ "index" \notin DOMAIN file
    /\ file["d"].ndim = 1
    /\ type = "TsdFrame"

\* the positions of the flat arrays that belong to group k
Positions(f, k) == {i \in DOMAIN f["index"].v : f["index"].v[i] = k}

Distinct(s) == \A i, j \in DOMAIN s : s[i] = s[j] => i = j

\* a container as a save of a group writes it: the four flat arrays, and a
\* `keys` array (when written) that lists every identifier once
Conforming(f) ==
    /\ Has(f, {"t", "index", "start", "end"})
    /\ "keys" \in DOMAIN f =>
          /\ Distinct(f["keys"].v)
          /\ Range(f["index"].v) \subseteq Range(f["keys"].v)

\* the number of groups the container stores
StoredGroups(f) ==
    IF "keys" \in DOMAIN f THEN Len(f["keys"].v)
    ELSE Cardinality(Range(f["index"].v))

\* member m holds exactly the timestamps of group k, in the order of t
HoldsGroup(f, k, m) ==
    /\ Len(m.t) = Cardinality(Positions(f, k))
    /\ \A i \in Positions(f, k) : \E j \in DOMAIN m.t : m.t[j] = f["t"].v[i]
    /\ \A a, b \in DOMAIN m.t : a < b => m.t[a] < m.t[b]

\* C4: loading a container that stores N groups as flat arrays t and index
\* yields a TsGroup of exactly N members, member k holding exactly the
\* timestamps whose index is k, in the order of t, empty groups included.
C4_RoundTrip ==
    (Loaded /\ type = "TsGroup" /\ Conforming(file)) =>
        /\ Result.kind = "TsGroup"
        /\ Cardinality(DOMAIN Result.group) = StoredGroups(file)
        /\ \A k \in DOMAIN Result.group : HoldsGroup(file, k, Result.group[k])
        /\ \A i \in DOMAIN file["index"].v :
              file["index"].v[i] \in DOMAIN Result.group

\* C7: the members are Tsd carrying the entries of `data` of their group
\* when the container has a `data` array, Ts when it has none, and the load
\* succeeds in both cases.
C7_MemberKind ==
    (Loaded /\ type = "TsGroup" /\ Has(file, {"t", "index", "start", "end"})) =>
        /\ Result.kind = "TsGroup"
        /\ "data" \in DOMAIN file =>
              \A k \in DOMAIN Result.group :
                 LET m == Result.group[k] IN
                 /\ m.kind = "Tsd"
                 /\ Len(m.d) = Cardinality(Positions(file, k))
                 /\ \A j \in DOMAIN m.d :
                       \E i \in Positions(file, k) :
                          /\ m.t[j] = file["t"].v[i]
                          /\ m.d[j] = file["data"].v[i]
        /\ "data" \notin DOMAIN file =>
              \A k \in DOMAIN Result.group : Result.group[k].kind = "Ts"

\* a key outside the reserved set is attached exactly when its length is the
\* number of groups, and it is attached unchanged
AttachedIffGroupLength ==
    \A k \in AllKeys :
       /\ k \in DOMAIN Result.metainfo <=>
             /\ k \in DOMAIN file
             /\ k \notin {"start", "end", "t", "index", "d", "rate", "keys"}
             /\ Len(file[k].v) = Cardinality(DOMAIN Result.group)
       /\ k \in DOMAIN Result.metainfo => Result.metainfo[k] = file[k]

\* C5 as stated: attached if and only if the length is the number of groups,
\* and a key whose length is the number of timestamps is rejected.
C5_Original ==
    (Loaded /\ Result.kind = "TsGroup") =>
        /\ AttachedIffGroupLength
        /\ \A k \in DOMAIN file \ {"start", "end", "t", "index", "d", "rate", "keys"} :
              Len(file[k].v) = Len(file["t"].v) => k \notin DOMAIN Result.metainfo

\* C5 amended: attached if and only if the length is the number of groups; a
\* key whose length is the number of timestamps is rejected unless there are
\* as many groups as timestamps.
C5_MetadataAcceptance ==
    (Loaded /\ Result.kind = "TsGroup") =>
        /\ AttachedIffGroupLength
        /\ \A k \in DOMAIN file \ {"start", "end", "t", "index", "d", "rate", "keys"} :
              (/\ Len(file[k].v) = Len(file["t"].v)
               /\ Len(file["t"].v) # Cardinality(DOMAIN Result.group))
                  => k \notin DOMAIN Result.metainfo

\* one array of the groups' length is attached, one of the timestamps'
\* length is rejected
C5_Witness ==
    /\ Loaded
    /\ Result.kind = "TsGroup"
    /\ Has(file, {"location", "data", "keys"})
    /\ Len(file["t"].v) = 2
    /\ Cardinality(DOMAIN Result.group) = 1
    /\ Len(file["location"].v) = 1
    /\ DOMAIN Result.metainfo = {"location"}

\* the keys load() needs for a kind
Required(kind) ==
    CASE kind = "TsGroup"     -> {"start", "end", "t", "index"}
      [] kind = "TsdFrame"    -> {"start", "end", "t", "d", "columns"}
      [] kind = "TsdTensor"   -> {"start", "end", "t", "d"}
      [] kind = "Tsd"         -> {"start", "end", "t", "d"}
      [] kind = "Ts"          -> {"start", "end", "t"}
      [] kind = "IntervalSet" -> {"start", "end"}
      [] OTHER                -> {}

\* C6: when the stored kind needs a key the container lacks, open has stored
\* the declared kind all the same, and load fails with an error that names a
\* missing key of that kind instead of returning an object.
C6_ConflictFailsAtLoad ==
    /\ (Opened /\ DeclaresKind(file) /\ ~Has(file, Required(file["type"].v[1])))
          => type = file["type"].v[1]
    /\ (Loaded /\ ~Has(file, Required(type)))
          => /\ Failed(Result)
             /\ Result.key \in Required(type) \ DOMAIN file

\* `type` = ["Tsd"] on the key set of a group
C6_Witness ==
    /\ Loaded
    /\ DOMAIN file = {"type", "t", "index", "start", "end"}
    /\ DeclaresKind(file)
    /\ type = "Tsd"
    /\ Failed(Result)
    /\ Result.key = "d"

TimeSupportOf(r) == IF r.kind = "IntervalSet" THEN r ELSE r.time_support

\* C8: a container classified Unrecognized has no valid override and lacks
\* start or end; load returns the container itself without any subscript and
\* does not fail.  For every other kind load subscripts start, then end,
\* before anything else, and the object it returns carries that TimeSupport.
C8_UnrecognizedShortCircuit ==
    /\ (Opened /\ type = "npz")
          => (~DeclaresKind(file) /\ ~Has(file, {"start", "end"}))
    /\ (Loaded /\ type = "npz")
          => (reads = <<>> /\ Result.kind = "npz" /\ Result.file = file)
    /\ (Loaded /\ type # "npz")
          => /\ reads # <<>>
             /\ reads[1] = "start"
             /\ Len(reads) >= 2 => reads[2] = "end"
             /\ ~Failed(Result) =>
                   /\ TimeSupportOf(Result).start = file["start"].v
                   /\ TimeSupportOf(Result).end = file["end"].v

\* a container with timestamps and start but no end
C8_Witness ==
    /\ Loaded
    /\ type = "npz"
    /\ Has(file, {"t", "start", "index", "type"})
    /\ Result.kind = "npz"

\* C9: the members' identifiers are the entries of `keys` in that array's
\* order when it is present, an identifier absent from index giving an empty
\* member; otherwise they are the distinct values of index in increasing
\* order and no member is empty.
C9_Identifiers ==
    (Loaded /\ Result.kind = "TsGroup") =>
        LET ids   == Result.ids
            index == file["index"].v
        IN  /\ Distinct(ids)
            /\ Range(ids) = DOMAIN Result.group
            /\ IF "keys" \in DOMAIN file
               THEN LET keys == file["keys"].v IN
                    /\ Range(ids) = Range(keys)
                    /\ Distinct(keys) => ids = keys
                    /\ \A a, b \in DOMAIN ids : a < b =>
                          \E i \in DOMAIN keys :
                             /\ keys[i] = ids[a]
                             /\ \A j \in 1..i : keys[j] # ids[b]
                    /\ \A k \in Range(keys) \ Range(index) :
                          Result.group[k].t = <<>>
               ELSE /\ Range(ids) = Range(index)
                    /\ \A a, b \in DOMAIN ids : a < b => ids[a] < ids[b]
                    /\ \A k \in Range(ids) : Result.group[k].t # <<>>

\* `keys` lists the groups in decreasing order and one of them is empty
C9_Witness ==
    /\ Loaded
    /\ Result.kind = "TsGroup"
    /\ "keys" \in DOMAIN file
    /\ file["keys"].v = <<2, 1>>
    /\ file["index"].v = <<1, 1>>
    /\ Result.ids = <<2, 1>>
    /\ Result.group[2].t = <<>>

\* C10: a load changes neither the stored kind nor the container, and all
\* the loads of one handle return equal results.
C10_LoadFrame ==
    /\ [][pc = "open" => (type' = type /\ file' = file)]_vars
    /\ [](\A i, j \in DOMAIN returned : returned[i] = returned[j])

\* two loads of a group on one handle
C10_Witness ==
    /\ Len(returned) >= 2
    /\ type = "TsGroup"
    /\ Result.kind = "TsGroup"
====
